---- MODULE Spec2Model ----
(***************************************************************************)
(* ha-fitbit-extra: the one-shot authorization flow (authorize.py), the    *)
(* manual import of its output into Redis (import-auth.py) and the         *)
(* poll-dedupe-publish loop (main.py), with the pickled-token helpers of   *)
(* lib/redis.py, which none of the three programs imports.                 *)
(*                                                                         *)
(* Time is epoch seconds.  Redis values are kept as the Python values the  *)
(* program reads back: hset/hgetall encode and decode str and int fields   *)
(* without loss, and pickle.dumps/pickle.loads round-trips datetime and    *)
(* None.  A Redis hash is a function from field names to values; the empty *)
(* function is an absent key.                                              *)
(***************************************************************************)
EXTENDS Integers, Sequences, FiniteSets, TLC

VARIABLES
    now,                      \* wall clock, epoch seconds
    \* ---- Redis
    redis_token,              \* hash at REDIS_TOKEN_KEY
    token_pickle,             \* string at REDIS_TOKEN_KEY: NoKey or the unpickled value
    fitbit_end_datetime,      \* key 'fitbit_end_datetime': NoKey or unpickled value
    fitbit_latest_timestamp,  \* key 'fitbit_latest_timestamp': NoKey, None or a datetime
    \* ---- main.py process
    pc,                       \* position of the poll process
    latest_timestamp,         \* main(): local of line 176-178
    tokens0,                  \* get_valid_access_token(): local 'tokens' of line 89
    access_token,             \* do_fetch(): local of line 134
    timestamp,                \* main(): first component of do_fetch()'s result
    hr_value,                 \* main(): second component of do_fetch()'s result
    i,                        \* publish(): loop index of line 119
    \* ---- what the poll process did (observation only, never read by the code)
    sleeps,                   \* number of times line 186 was run, all runs together
    data,                     \* body of this cycle's fetch response
    fetch_status,             \* status code of this cycle's fetch response (0: none yet)
    reqs,                     \* this cycle's HTTP requests, in order
    tok_read,                 \* what get_valid_access_token read at line 89-90
    pub_calls,                \* arguments of this cycle's publish() calls
    results,                  \* result codes of this cycle's client.publish calls
    refresh_resp,             \* status and body of this cycle's refresh response
    error_logged,             \* line 130 was executed in this cycle
    pub_count,                \* publish() calls per sample timestamp, all sleeps
    \* ---- authorize.py process
    apc,                      \* position of the orchestrator thread
    client_id,                \* argument of authorize()
    authorization_code,       \* module global of line 37
    auth_event,               \* threading.Event of line 161
    hpc,                      \* position of the listener thread in do_GET
    pending_code,             \* do_GET: query_params['code'][0] of the request in service
    pending_path,             \* do_GET: parsed_url.path of the request in service
    served,                   \* requests the listener has answered
    last_status,              \* status code of the latest answer
    answered,                 \* the requests answered and their status codes, in order
    wait_obs,                 \* the event and the global as they were when line 179 returned
    exchange_req,             \* the token exchange request made (observation only)
    token_dict,               \* JSON printed at line 203 (NoKey before)
    \* ---- lib/redis.py
    lib_result                \* what the latest load_token_from_redis() came to

vars == <<now, redis_token, token_pickle, fitbit_end_datetime,
          fitbit_latest_timestamp, pc, latest_timestamp, tokens0, access_token, timestamp, hr_value, i, sleeps, data,
          fetch_status, reqs, tok_read, pub_calls, results, refresh_resp,
          error_logged, pub_count,
          apc,
          client_id, authorization_code, auth_event, hpc, pending_code,
          pending_path, served, last_status, answered, wait_obs, exchange_req,
          token_dict, lib_result>>

pollVars == <<pc, latest_timestamp, tokens0, access_token, timestamp, hr_value, i, sleeps,
              data, fetch_status, reqs, tok_read, pub_calls, results, refresh_resp, error_logged,
              pub_count>>
redisCursorVars == <<fitbit_end_datetime, fitbit_latest_timestamp>>
tokenKeyVars == <<redis_token, token_pickle>>
libVars == <<lib_result>>
authVars == <<apc, client_id, authorization_code, auth_event, hpc, pending_code,
              pending_path, served, last_status, answered, wait_obs, exchange_req,
              token_dict>>

----------------------------------------------------------------------------
\* Values

\* An optional number or datetime is a sequence: <<>> is Python's None (for a
\* JSON object, a key that is not there) and <<x>> is x.  A Redis string key is
\* <<>> when it does not exist and <<v>> when it holds pickle.dumps(v).
None == <<>>
Some(x) == <<x>>
NoKey == <<>>
Pickled(v) == <<v>>
NoString == "None"            \* None where the other values are strings
EmptyHash == [f \in {} |-> NoString]

\* ---- bounds of the model
MaxSleeps == 1                \* cycles begin until line 186 has run more often than this
MaxServed == 2                \* requests the callback listener answers

\* ---- program constants
retries == 10                                   \* main.py:118
RetryDelay == 10                                \* main.py:129
SLEEP_MINUTES == 150 \div 60                    \* main.py:21, math.floor(150 / 60)
SleepSeconds == SLEEP_MINUTES * 1000            \* main.py:186
WindowSeconds == 23 * 3600                      \* main.py:144, timedelta(hours=23)
CertSleep == 2                                  \* authorize.py:172
WaitTimeout == 300                              \* authorize.py:179
DaySeconds == 24 * 3600

\* ---- inputs
StartNows == {998}            \* clock when the operator runs authorize.py
OperatorDelays == {3600, 4000} \* time between the token exchange and the start of main.py
ClientIds == {"ABC123"}
Codes == {"xyz", "abc"}
ExpiresIns == {3600, 28800}
Samples == {<<1200, 72>>, <<5400, 80>>}  \* samples: seconds after midnight, bpm
HttpStatuses == {200, 201, 401, 500}
FetchStatuses == HttpStatuses \cup {304}  \* answers of the metric endpoint
NetworkDelays == {0, 7}       \* seconds a token or metric endpoint takes to answer
MqttStatuses == {0, 4}        \* MQTT_ERR_SUCCESS, MQTT_ERR_NO_CONN
AccessTokens == {"AT2"}       \* access tokens a refresh hands out
RefreshTokens == {"RT2"}      \* refresh tokens a refresh hands out

\* dict.get(key) / dict.get(key, default)
Get(d, k) == IF k \in DOMAIN d THEN d[k] ELSE NoString
GetOr(d, k, dflt) == IF k \in DOMAIN d THEN d[k] ELSE dflt

\* redis.hset(key, mapping=m): sets the fields of m, keeps the other fields
HSet(old, m) ==
    [f \in DOMAIN old \cup DOMAIN m |-> IF f \in DOMAIN m THEN m[f] ELSE old[f]]

\* The 'time' of a sample: no such key, "", a string that is no time, "HH:MM:SS"
NoTime == [kind |-> "missing", sec |-> 0]
EmptyTime == [kind |-> "empty", sec |-> 0]
BadTime == [kind |-> "garbage", sec |-> 0]
Hms(s) == [kind |-> "hms", sec |-> s]

\* Python truthiness: of latest.get('time'), and of an optional number
TruthyTime(t) == t.kind \notin {"missing", "empty"}
TruthyNumber(v) == v # None /\ v[1] # 0

----------------------------------------------------------------------------
\* main.py: token store

\* get_tokens(), line 43: no hash at REDIS_TOKEN_KEY
NoTokens(token_data) == DOMAIN token_data = {}

\* (variant: the comparison of line 91 made strict)
ExpiredStrict(tokens, current_time) == tokens["expires_at"] < current_time

\* get_valid_access_token(), line 91
Expired(tokens, current_time) == tokens["expires_at"] <= current_time

\* refresh_access_token(), lines 52-56: form data of the POST to TOKEN_URL
RefreshData(tokens, refresh_token) ==
    [op |-> "refresh",
     grant_type |-> "refresh_token",
     refresh_token |-> refresh_token,
     client_id |-> Get(tokens, "client_id")]

\* (variant: the status check of line 63 left out)
RefreshOkUnchecked(status) == TRUE

\* refresh_access_token(), line 63: the answer is taken as a success
RefreshOk(status) == status = 200

\* (variant: line 84 replacing the hash by the mapping)
StoreTokensReplacing(old, updated_tokens) == updated_tokens

\* refresh_access_token(), line 84
StoreTokens(old, updated_tokens) == HSet(old, updated_tokens)

\* (variant: line 93 dropping the result of the refresh)
ReturnedTokenStale(tokens, updated_tokens) == tokens["access_token"]

\* get_valid_access_token(), lines 93-94: the token handed to do_fetch after a
\* refresh comes from the dict refresh_access_token returned
ReturnedToken(tokens, updated_tokens) == updated_tokens["access_token"]

\* refresh_access_token(), lines 71-82
UpdatedTokens(token_data, refresh_token, t) ==
    [access_token |-> Get(token_data, "access_token"),
     refresh_token |-> GetOr(token_data, "refresh_token", refresh_token),
     expires_at |-> t + token_data["expires_in"],
     scope |-> Get(token_data, "scope"),
     token_type |-> Get(token_data, "token_type"),
     user_id |-> Get(token_data, "user_id")]

\* Bodies of a 200 answer of the token endpoint to a refresh.  The provider
\* sends access_token, expires_in, scope, token_type and user_id; refresh_token
\* is the field the code has a fallback for (line 77).
RefreshBodies ==
    { [access_token |-> a, expires_in |-> e, scope |-> "heartrate",
       token_type |-> "Bearer", user_id |-> "U1"] : a \in AccessTokens, e \in ExpiresIns }
    \cup
    { [access_token |-> a, refresh_token |-> r, expires_in |-> e, scope |-> "heartrate",
       token_type |-> "Bearer", user_id |-> "U1"] :
         a \in AccessTokens, r \in RefreshTokens, e \in ExpiresIns }

----------------------------------------------------------------------------
\* main.py: fetch

\* strftime("%Y-%m-%d") and strftime("%H:%M") of lines 98-101: the URL carries
\* the date and the minute, the seconds are dropped
UrlTime(t) == [date |-> t \div DaySeconds, minute |-> (t % DaySeconds) \div 60]

\* fetch_heart_rate_data(), lines 98-106: the GET request
FetchRequest(token, start_datetime, end_datetime) ==
    [op |-> "fetch", bearer |-> token,
     start |-> UrlTime(start_datetime), end |-> UrlTime(end_datetime)]

\* dateparser.parse of a sample's 'time' ("HH:MM:SS", no date): that time on
\* the current day; None for a string it cannot parse
parse(s, t) ==
    IF s.kind = "hms" THEN Some((t \div DaySeconds) * DaySeconds + s.sec) ELSE None

WellFormed == { [time |-> Hms(x[1]), value |-> Some(x[2])] : x \in Samples }
Malformed ==
    { [time |-> t, value |-> Some(72)] : t \in {NoTime, EmptyTime, BadTime} }
    \cup { [time |-> Hms(1200), value |-> v] : v \in {None, Some(0)} }
Entries == WellFormed \cup Malformed
Earlier == [time |-> Hms(10 * 60), value |-> Some(60)]  \* an older sample of the window

\* Bodies of a 200 answer of the metric endpoint
FetchBodies ==
    { [kind |-> "empty_object"],                      \* {}
      [kind |-> "no_intraday"],                       \* {"activities-heart": [...]}
      [kind |-> "no_dataset"] }                       \* intraday object without 'dataset'
    \cup { [kind |-> "dataset", dataset |-> <<>>] }
    \cup { [kind |-> "dataset", dataset |-> <<e>>] : e \in Entries }
    \cup { [kind |-> "dataset", dataset |-> <<Earlier, e>>] : e \in WellFormed }

\* fetch_heart_rate_data(), lines 108-113, and the except of lines 150-152:
\* what do_fetch gets for a response.  raise_for_status() raises for 4xx and
\* 5xx only; after a 2xx other than 200 the function ends without a return.
FetchOutcome(status, body) ==
    IF status = 200 THEN body
    ELSE IF status \in 400..599 THEN [kind |-> "exit"]
    ELSE [kind |-> "none"]

\* do_fetch(), line 157
Latest(heart_data) == heart_data[Len(heart_data)]

\* do_fetch(), lines 154-166: the pair returned
Extract(d, t) ==
    IF d.kind \in {"none", "empty_object", "no_intraday"} THEN <<None, None>>
    ELSE LET heart_data == IF d.kind = "no_dataset" THEN <<>> ELSE d.dataset
         IN IF heart_data = <<>> THEN <<None, None>>
            ELSE LET latest == Latest(heart_data)
                 IN IF ~TruthyTime(latest.time) \/ ~TruthyNumber(latest.value)
                    THEN <<None, None>>
                    ELSE <<parse(latest.time, t), latest.value>>

----------------------------------------------------------------------------
\* main.py: dedupe and publish

\* (variant: the result code of line 123 not looked at)
SucceededUnchecked(status) == TRUE

\* publish(), lines 123-124
Succeeded(status) == status = 0

\* (variant: publish() raising once the retries are used up)
AfterFailureRaising(n) == IF n = retries THEN "crashed" ELSE "publish"

\* publish(), lines 119 and 130: where control goes after n failed passes:
\* into the next pass, or, the passes used up, past line 130 and back to main()
AfterFailure(n) == IF n = retries THEN "sleep" ELSE "publish"

\* (variant: the comparison of line 183 made non-strict)
DedupeNonStrict(lt, ts) ==
    IF lt = None THEN "publish"
    ELSE IF ts = None THEN "TypeError"
    ELSE IF lt[1] <= ts[1] THEN "publish" ELSE "skip"

\* main(), line 183.  datetime < None raises TypeError.
Dedupe(lt, ts) ==
    IF lt = None THEN "publish"
    ELSE IF ts = None THEN "TypeError"
    ELSE IF lt[1] < ts[1] THEN "publish" ELSE "skip"

\* pub_count after one more publish() call for the sample of timestamp ts
Counted(counts, ts) ==
    IF ts = None THEN counts
    ELSE [t \in DOMAIN counts \cup {ts[1]} |->
            IF t \in DOMAIN counts
            THEN (IF t = ts[1] THEN counts[t] + 1 ELSE counts[t])
            ELSE 1]

NoTokRead == [tokens |-> EmptyHash, current_time |-> 0]
NoResponse == [status |-> 0, body |-> EmptyHash]

\* The locals and the per-cycle observations of a process that has not begun a cycle
FreshCycle ==
    /\ latest_timestamp' = None
    /\ tokens0' = EmptyHash
    /\ access_token' = NoString
    /\ timestamp' = None
    /\ hr_value' = None
    /\ i' = 0
    /\ data' = [kind |-> "none"]
    /\ fetch_status' = 0
    /\ reqs' = <<>>
    /\ tok_read' = NoTokRead
    /\ pub_calls' = <<>>
    /\ results' = <<>>
    /\ refresh_resp' = NoResponse
    /\ error_logged' = FALSE

----------------------------------------------------------------------------
\* main.py: the poll process

\* The operator starts main.py, some time after the authorization
StartPoll ==
    /\ pc = "stopped"
    /\ apc \in {"idle", "done", "failed"}
    /\ \E d \in OperatorDelays : now' = now + d
    /\ pc' = "loop_top"
    /\ UNCHANGED <<tokenKeyVars, redisCursorVars, latest_timestamp, tokens0,
                   access_token, timestamp, hr_value, i, sleeps, data,
                   fetch_status, reqs, tok_read, pub_calls, results, refresh_resp,
                   error_logged, pub_count, authVars, libVars>>

\* main.py is started again after it ended (exit(1), sys.exit(1) or a traceback)
RestartPoll ==
    /\ pc \in {"exited", "crashed"}
    /\ pc' = "loop_top"
    /\ FreshCycle
    /\ UNCHANGED <<now, tokenKeyVars, redisCursorVars, sleeps, pub_count, authVars,
                   libVars>>

\* main(), lines 174-178: a cycle begins, the dedupe marker is read
LoopTop ==
    /\ pc = "loop_top"
    /\ sleeps <= MaxSleeps
    /\ latest_timestamp' =
         IF fitbit_latest_timestamp = NoKey THEN None ELSE fitbit_latest_timestamp[1]
    /\ pc' = "get_token"
    /\ UNCHANGED <<now, tokenKeyVars, redisCursorVars, tokens0, access_token,
                   timestamp, hr_value, i, sleeps, data, fetch_status, reqs,
                   tok_read, pub_calls, results, refresh_resp, error_logged,
                   pub_count, authVars, libVars>>

\* redis.hgetall / redis.hset of a key that holds a string: ResponseError
\* WRONGTYPE, which nothing catches
WrongType(string_value) == string_value # NoKey

\* do_fetch(), line 134: get_valid_access_token(), lines 88-92, with
\* get_tokens(), lines 41-47: the record is read and its expiry tested
GetValidAccessToken ==
    /\ pc = "get_token"
    /\ IF WrongType(token_pickle)
       THEN /\ pc' = "crashed"
            /\ UNCHANGED <<tokens0, access_token, tok_read>>
       ELSE IF NoTokens(redis_token)
       THEN \* line 45
            /\ pc' = "exited"
            /\ UNCHANGED <<tokens0, access_token, tok_read>>
       ELSE /\ tokens0' = redis_token
            /\ tok_read' = [tokens |-> redis_token, current_time |-> now]
            /\ IF ~Expired(redis_token, now)
               THEN \* line 94
                    /\ access_token' = redis_token["access_token"]
                    /\ pc' = "fetch"
               ELSE \* line 93
                    /\ pc' = "refresh"
                    /\ UNCHANGED access_token
    /\ UNCHANGED <<now, tokenKeyVars, redisCursorVars, latest_timestamp, timestamp,
                   hr_value, i, sleeps, data, fetch_status, reqs, pub_calls,
                   results, refresh_resp, error_logged, pub_count, authVars,
                   libVars>>

\* refresh_access_token(), lines 51-62: the record is read a second time, for
\* its client_id, and the POST is sent; refresh_token is the argument of line 93
RefreshRequest ==
    /\ pc = "refresh"
    /\ IF WrongType(token_pickle)
       THEN /\ pc' = "crashed"
            /\ UNCHANGED reqs
       ELSE IF NoTokens(redis_token)
       THEN \* line 45
            /\ pc' = "exited"
            /\ UNCHANGED reqs
       ELSE /\ reqs' = Append(reqs, RefreshData(redis_token, tokens0["refresh_token"]))
            /\ pc' = "refresh_wait"
    /\ UNCHANGED <<now, tokenKeyVars, redisCursorVars, latest_timestamp, tokens0,
                   access_token, timestamp, hr_value, i, sleeps, data,
                   fetch_status, tok_read, pub_calls, results, refresh_resp,
                   error_logged, pub_count, authVars, libVars>>

\* refresh_access_token(), lines 62-85, and get_valid_access_token(), lines
\* 93-94: the answer arrives, after one of `delays` seconds, the clock is read
\* again and the record written
RefreshResponseAfter(delays) ==
    /\ pc = "refresh_wait"
    /\ \E status \in HttpStatuses, token_data \in RefreshBodies, d \in delays :
         /\ now' = now + d
         /\ refresh_resp' = [status |-> status, body |-> token_data]
         /\ IF ~RefreshOk(status)
            THEN \* line 65
                 /\ pc' = "exited"
                 /\ UNCHANGED <<redis_token, access_token>>
            ELSE IF WrongType(token_pickle)
            THEN \* line 84
                 /\ pc' = "crashed"
                 /\ UNCHANGED <<redis_token, access_token>>
            ELSE LET updated_tokens ==
                         UpdatedTokens(token_data, tokens0["refresh_token"], now')
                 IN /\ redis_token' = StoreTokens(redis_token, updated_tokens)
                    /\ access_token' = ReturnedToken(tokens0, updated_tokens)
                    /\ pc' = "fetch"
    /\ UNCHANGED <<token_pickle, redisCursorVars, latest_timestamp, tokens0,
                   timestamp, hr_value, i, sleeps, data, fetch_status, reqs,
                   tok_read, pub_calls, results, error_logged, pub_count, authVars,
                   libVars>>

\* The answer to the refresh, however long the token endpoint takes
RefreshResponse == RefreshResponseAfter(NetworkDelays)

\* The answer to the refresh when it arrives within the second
RefreshResponsePrompt == RefreshResponseAfter({0})

\* do_fetch(), lines 136-149, and fetch_heart_rate_data(), lines 98-108: the
\* window is taken from the clock and the persisted end, the end is persisted
\* and the GET is sent
DoFetchRequest ==
    /\ pc = "fetch"
    /\ LET end_datetime ==
               IF fitbit_end_datetime = NoKey THEN now ELSE fitbit_end_datetime[1]
           start_datetime == end_datetime - WindowSeconds
       IN /\ fitbit_end_datetime' = Pickled(now)
          /\ reqs' = Append(reqs, FetchRequest(access_token, start_datetime, end_datetime))
    /\ pc' = "fetch_wait"
    /\ UNCHANGED <<now, tokenKeyVars, fitbit_latest_timestamp, latest_timestamp,
                   tokens0, access_token, timestamp, hr_value, i, sleeps, data,
                   fetch_status, tok_read, pub_calls, results, refresh_resp,
                   error_logged, pub_count, authVars, libVars>>

\* fetch_heart_rate_data(), lines 108-113, and do_fetch(), lines 150-166: the
\* answer arrives, after one of `delays` seconds, with a status of `statuses`
\* and a body of `bodies`, and the latest sample is taken from it; parse reads
\* the clock then
DoFetchResponseAnswered(statuses, bodies, delays) ==
    /\ pc = "fetch_wait"
    /\ \E status \in statuses, body \in bodies, d \in delays :
         LET r == FetchOutcome(status, body) IN
         /\ now' = now + d
         /\ fetch_status' = status
         /\ IF r.kind = "exit"
            THEN \* line 152
                 /\ pc' = "exited"
                 /\ UNCHANGED <<data, timestamp, hr_value>>
            ELSE /\ data' = r
                 /\ timestamp' = Extract(r, now')[1]
                 /\ hr_value' = Extract(r, now')[2]
                 /\ pc' = "dedupe"
    /\ UNCHANGED <<tokenKeyVars, redisCursorVars, latest_timestamp, tokens0,
                   access_token, i, sleeps, reqs, tok_read, pub_calls, results,
                   refresh_resp, error_logged, pub_count, authVars, libVars>>

\* The answer to the GET, whatever it is and however long it takes
DoFetchResponse == DoFetchResponseAnswered(FetchStatuses, FetchBodies, NetworkDelays)

\* The answer to the GET, whatever it is, when it arrives within the second
DoFetchResponsePrompt == DoFetchResponseAnswered(FetchStatuses, FetchBodies, {0})

\* The answer to the GET while the metric endpoint is in order: 200 and one
\* well-formed sample, however long it takes
HealthyBodies == { [kind |-> "dataset", dataset |-> <<e>>] : e \in WellFormed }
DoFetchResponseHealthy == DoFetchResponseAnswered({200}, HealthyBodies, NetworkDelays)

\* main(), lines 181-184: the marker is stored, then the comparison decides
StoreAndDedupe ==
    /\ pc = "dedupe"
    /\ fitbit_latest_timestamp' = Pickled(timestamp)
    /\ LET verdict == Dedupe(latest_timestamp, timestamp) IN
       /\ pc' = CASE verdict = "publish" -> "publish"
                  [] verdict = "skip" -> "sleep"
                  [] OTHER -> "crashed"
       /\ IF verdict = "publish"
          THEN /\ pub_calls' = Append(pub_calls, [timestamp |-> timestamp, msg |-> hr_value])
               /\ pub_count' = Counted(pub_count, timestamp)
          ELSE UNCHANGED <<pub_calls, pub_count>>
    /\ i' = 0
    /\ UNCHANGED <<now, tokenKeyVars, fitbit_end_datetime, latest_timestamp,
                   tokens0, access_token, timestamp, hr_value, sleeps, data,
                   fetch_status, reqs, tok_read, results, refresh_resp,
                   error_logged, authVars, libVars>>

\* publish(), lines 119-129: one pass of the retry loop, for a client.publish
\* that returns a code of `statuses`; a failed pass ends with the sleep of
\* line 129
PublishAttemptAnswered(statuses) ==
    /\ pc = "publish"
    /\ i < retries
    /\ \E status \in statuses :
         /\ results' = Append(results, status)
         /\ IF Succeeded(status)
            THEN /\ pc' = "sleep"
                 /\ UNCHANGED <<now, i, error_logged>>
            ELSE /\ now' = now + RetryDelay
                 /\ i' = i + 1
                 /\ pc' = "publish"
                 /\ UNCHANGED error_logged
    /\ UNCHANGED <<tokenKeyVars, redisCursorVars, latest_timestamp, tokens0,
                   access_token, timestamp, hr_value, sleeps, data, fetch_status,
                   reqs, tok_read, pub_calls, refresh_resp, pub_count, authVars,
                   libVars>>

\* publish(), whatever the broker answers
PublishAttempt == PublishAttemptAnswered(MqttStatuses)

\* publish() while the broker takes every message
PublishDelivered == PublishAttemptAnswered({0})

\* publish(), line 130: the passes are used up, the loop is left, the error is
\* logged and publish() returns to main()
PublishGiveUp ==
    /\ pc = "publish"
    /\ i = retries
    /\ error_logged' = TRUE
    /\ pc' = AfterFailure(i)
    /\ UNCHANGED <<now, tokenKeyVars, redisCursorVars, latest_timestamp, tokens0,
                   access_token, timestamp, hr_value, i, sleeps, data,
                   fetch_status, reqs, tok_read, pub_calls, results, refresh_resp,
                   pub_count, authVars, libVars>>

\* main(), line 186
Sleep ==
    /\ pc = "sleep"
    /\ now' = now + SleepSeconds
    /\ sleeps' = sleeps + 1
    /\ pc' = "loop_top"
    /\ FreshCycle
    /\ UNCHANGED <<tokenKeyVars, redisCursorVars, pub_count, authVars, libVars>>

----------------------------------------------------------------------------
\* authorize.py: the callback listener (OAuthCallbackHandler.do_GET)

Paths == {"/", "/callback", "/favicon.ico"}

\* parse_qs(parsed_url.query): <<>> when the query string has no 'code', else
\* <<query_params['code'][0]>>
Queries == {None} \cup {Some(c) : c \in Codes}

\* The listener is a daemon thread: it serves from line 168 until the process
\* ends, by sys.exit(1) of line 182 or 194 or after authorize() has returned
ServerRunning ==
    apc \in {"cert_sleep", "waiting", "check_code", "no_code", "exchange",
             "exchanging", "fetch_failed", "printed"}

\* (variant: the test of line 75 left out, a code taken from any path)
StoresCodeAnyPath(path, query) == query # None

\* do_GET, lines 59, 75 and 78: the request gets as far as line 86
StoresCode(path, query) == path = "/callback" /\ query # None

\* do_GET, lines 61, 79, 89 and 103: send_response
Status(path, query) ==
    CASE path = "/" -> 200
      [] path = "/callback" -> (IF query = None THEN 400 ELSE 200)
      [] OTHER -> 404

\* (variant: line 86 keeping a code that is already there)
StoreCodeFirstWins(old, code) == IF old = NoString THEN code ELSE old

\* (variant: line 86 left out)
StoreCodeDropped(old, code) == old

\* do_GET, line 86: the global after the assignment
StoreCode(old, code) == code

Answer(path, query) == [path |-> path, query |-> query, status |-> Status(path, query)]

\* do_GET, lines 58-82 and 102-105: a request that is answered at once
DoGetPlain ==
    /\ ServerRunning
    /\ hpc = "idle"
    /\ served < MaxServed
    /\ \E path \in Paths, query \in Queries :
         /\ ~StoresCode(path, query)
         /\ last_status' = Status(path, query)
         /\ answered' = Append(answered, Answer(path, query))
    /\ served' = served + 1
    /\ UNCHANGED <<now, tokenKeyVars, redisCursorVars, pollVars, libVars, apc, client_id,
                   authorization_code, auth_event, hpc, pending_code, pending_path,
                   wait_obs, exchange_req, token_dict>>

\* do_GET, lines 75-86: a request with a code; the code is stored
DoGetCallbackStore ==
    /\ ServerRunning
    /\ hpc = "idle"
    /\ served < MaxServed
    /\ \E path \in Paths, query \in Queries :
         /\ StoresCode(path, query)
         /\ pending_path' = path
         /\ pending_code' = query[1]
         /\ authorization_code' = StoreCode(authorization_code, query[1])
    /\ hpc' = "stored"
    /\ UNCHANGED <<now, tokenKeyVars, redisCursorVars, pollVars, libVars, apc, client_id,
                   auth_event, served, last_status, answered, wait_obs,
                   exchange_req, token_dict>>

\* do_GET, line 87: the event is set; the orchestrator can run from here on
DoGetCallbackSignal ==
    /\ ServerRunning
    /\ hpc = "stored"
    /\ auth_event' = TRUE
    /\ hpc' = "signalled"
    /\ UNCHANGED <<now, tokenKeyVars, redisCursorVars, pollVars, libVars, apc,
                   client_id, authorization_code, pending_code, pending_path,
                   served, last_status, answered, wait_obs, exchange_req,
                   token_dict>>

\* do_GET, lines 89-101: the request is answered, if the process still runs
DoGetCallbackAnswer ==
    /\ ServerRunning
    /\ hpc = "signalled"
    /\ last_status' = Status(pending_path, Some(pending_code))
    /\ answered' = Append(answered, Answer(pending_path, Some(pending_code)))
    /\ served' = served + 1
    /\ hpc' = "idle"
    /\ UNCHANGED <<now, tokenKeyVars, redisCursorVars, pollVars, libVars, apc,
                   client_id, authorization_code, auth_event, pending_code,
                   pending_path, wait_obs, exchange_req, token_dict>>

----------------------------------------------------------------------------
\* authorize.py: authorize(client_id)

\* lines 146-171: PKCE pair, authorization URL, listener thread, browser at '/'
AuthorizeStart ==
    /\ apc = "idle"
    /\ pc = "stopped"
    /\ \E cid \in ClientIds : client_id' = cid
    /\ apc' = "cert_sleep"
    /\ UNCHANGED <<now, tokenKeyVars, redisCursorVars, pollVars, libVars, authorization_code,
                   auth_event, hpc, pending_code, pending_path, served, last_status,
                   answered, wait_obs, exchange_req, token_dict>>

\* lines 172-175: time.sleep(2), then the browser is sent to the authorization URL
OpenAuthorizationUrl ==
    /\ apc = "cert_sleep"
    /\ now' = now + CertSleep
    /\ apc' = "waiting"
    /\ UNCHANGED <<tokenKeyVars, redisCursorVars, pollVars, libVars, client_id,
                   authorization_code, auth_event, hpc, pending_code, pending_path,
                   served, last_status, answered, wait_obs, exchange_req,
                   token_dict>>

NotReturned == [returned |-> FALSE, signalled |-> FALSE, code |-> NoString]

\* line 179: auth_event.wait(timeout=300) returns, the event set or the time up
WaitReturns ==
    /\ apc = "waiting"
    /\ now' = IF auth_event THEN now ELSE now + WaitTimeout
    /\ wait_obs' = [returned |-> TRUE, signalled |-> auth_event,
                    code |-> authorization_code]
    /\ apc' = "check_code"
    /\ UNCHANGED <<tokenKeyVars, redisCursorVars, pollVars, libVars, client_id,
                   authorization_code, auth_event, hpc, pending_code, pending_path,
                   served, last_status, answered, exchange_req, token_dict>>

\* line 180, negated: the global holds a code
CodeReceived(code) == code # NoString

\* line 180: the global is tested; the listener goes on serving after the test
CheckCode ==
    /\ apc = "check_code"
    /\ apc' = IF CodeReceived(authorization_code) THEN "exchange" ELSE "no_code"
    /\ UNCHANGED <<now, tokenKeyVars, redisCursorVars, pollVars, libVars, client_id,
                   authorization_code, auth_event, hpc, pending_code, pending_path,
                   served, last_status, answered, wait_obs, exchange_req,
                   token_dict>>

\* lines 181-182: the message is printed and sys.exit(1) ends the process, and
\* the listener with it, whatever the listener has stored since the test
ExitNoCode ==
    /\ apc = "no_code"
    /\ apc' = "failed"
    /\ UNCHANGED <<now, tokenKeyVars, redisCursorVars, pollVars, libVars, client_id,
                   authorization_code, auth_event, hpc, pending_code, pending_path,
                   served, last_status, answered, wait_obs, exchange_req,
                   token_dict>>

\* Bodies of a successful answer of the token endpoint to the code exchange
ExchangeBodies ==
    { [access_token |-> "AT1", refresh_token |-> "RT1", expires_in |-> e,
       scope |-> "heartrate", token_type |-> "Bearer", user_id |-> "U1"] :
         e \in ExpiresIns }

\* (variant: the expires_in of the answer not added)
TokenDictNoLifetime(body, t) ==
    HSet(body, [expires_at |-> t])

\* lines 196-200: the record that is printed.  fetch_token returns the fields of
\* the provider's answer with expires_at = now + expires_in added by the OAuth
\* library; it puts no client_id into it
TokenDict(body, t) ==
    HSet(body, [expires_at |-> t + body["expires_in"]])

\* lines 186-191: fetch_token reads the global and sends the request
ExchangeRequest ==
    /\ apc = "exchange"
    /\ exchange_req' = [code |-> authorization_code, client_id |-> client_id]
    /\ apc' = "exchanging"
    /\ UNCHANGED <<now, tokenKeyVars, redisCursorVars, pollVars, libVars, client_id,
                   authorization_code, auth_event, hpc, pending_code, pending_path,
                   served, last_status, answered, wait_obs, token_dict>>

\* lines 186-203: the answer arrives, or fetch_token raises and line 192
\* catches it; the clock is read after the answer and the record printed
ExchangeResponse ==
    /\ apc = "exchanging"
    /\ \E d \in NetworkDelays :
         /\ now' = now + d
         /\ \/ /\ apc' = "fetch_failed"
               /\ UNCHANGED token_dict
            \/ \E body \in ExchangeBodies :
                 /\ token_dict' = TokenDict(body, now')
                 /\ apc' = "printed"
    /\ UNCHANGED <<tokenKeyVars, redisCursorVars, pollVars, libVars, client_id,
                   authorization_code, auth_event, hpc, pending_code, pending_path,
                   served, last_status, answered, wait_obs, exchange_req>>

\* lines 193-194: the message is printed and sys.exit(1) ends the process
ExitFetchFailed ==
    /\ apc = "fetch_failed"
    /\ apc' = "failed"
    /\ UNCHANGED <<now, tokenKeyVars, redisCursorVars, pollVars, libVars, client_id,
                   authorization_code, auth_event, hpc, pending_code, pending_path,
                   served, last_status, answered, wait_obs, exchange_req,
                   token_dict>>

\* line 212: authorize() returns after line 203 and the process ends
AuthorizeReturns ==
    /\ apc = "printed"
    /\ apc' = "done"
    /\ UNCHANGED <<now, tokenKeyVars, redisCursorVars, pollVars, libVars, client_id,
                   authorization_code, auth_event, hpc, pending_code, pending_path,
                   served, last_status, answered, wait_obs, exchange_req,
                   token_dict>>

----------------------------------------------------------------------------
\* import-auth.py

\* The records authorize.py prints when the exchange is answered at time t
ExchangeTimes == {1000}
ImportedRecords ==
    UNION { { TokenDict(body, t), HSet(TokenDict(body, t), [client_id |-> cid]) } :
              body \in ExchangeBodies, t \in ExchangeTimes, cid \in ClientIds }

\* What the operator pastes: a record authorize.py printed, in this run or in
\* an earlier one, as it is or with the client_id added by hand
ImportInputs ==
    ImportedRecords \cup
    (IF token_dict = EmptyHash THEN {}
     ELSE {token_dict, HSet(token_dict, [client_id |-> client_id])})

\* import_token_info(), lines 11-24; it runs whatever main.py is doing.  On a
\* key that holds a string the hset of line 23 raises and nothing is stored.
ImportTokenInfo ==
    /\ ~WrongType(token_pickle)
    /\ \E token_info \in ImportInputs : redis_token' = HSet(redis_token, token_info)
    /\ UNCHANGED <<now, token_pickle, redisCursorVars, pollVars, authVars, libVars>>

----------------------------------------------------------------------------
\* lib/redis.py: load_token_from_redis and save_token_to_redis keep the token
\* as one pickled string at REDIS_TOKEN_KEY.  Neither main.py nor authorize.py
\* nor import-auth.py imports lib.redis, so these two steps are taken in Next
\* alone, by a caller from outside the three programs.

NotLoaded == [kind |-> "none", token |-> EmptyHash]

\* load_token_from_redis(), lines 16-24: redis_client.get of a key that holds
\* a hash raises WRONGTYPE; no key ends the process; else the unpickled dict
LoadOutcome(hash_value, string_value) ==
    IF ~NoTokens(hash_value) THEN [kind |-> "WRONGTYPE", token |-> EmptyHash]
    ELSE IF string_value = NoKey THEN [kind |-> "exit", token |-> EmptyHash]
    ELSE [kind |-> "token", token |-> string_value[1]]

\* load_token_from_redis()
LoadTokenFromRedis ==
    /\ lib_result' = LoadOutcome(redis_token, token_pickle)
    /\ UNCHANGED <<now, tokenKeyVars, redisCursorVars, pollVars, authVars>>

\* save_token_to_redis(token_dict), line 29: SET replaces the key, whatever it
\* held, by the pickled dict
SaveTokenToRedis ==
    /\ \E td \in ImportInputs : token_pickle' = Pickled(td)
    /\ redis_token' = EmptyHash
    /\ UNCHANGED <<now, redisCursorVars, pollVars, authVars, libVars>>

----------------------------------------------------------------------------

Init ==
    /\ now \in StartNows
    /\ redis_token = EmptyHash
    /\ token_pickle = NoKey
    /\ fitbit_end_datetime = NoKey
    /\ fitbit_latest_timestamp = NoKey
    /\ pc = "stopped"
    /\ latest_timestamp = None
    /\ tokens0 = EmptyHash
    /\ access_token = NoString
    /\ timestamp = None
    /\ hr_value = None
    /\ i = 0
    /\ sleeps = 0
    /\ data = [kind |-> "none"]
    /\ fetch_status = 0
    /\ reqs = <<>>
    /\ tok_read = NoTokRead
    /\ pub_calls = <<>>
    /\ results = <<>>
    /\ refresh_resp = NoResponse
    /\ error_logged = FALSE
    /\ pub_count = [t \in {} |-> 0]
    /\ apc = "idle"
    /\ client_id = NoString
    /\ authorization_code = NoString
    /\ auth_event = FALSE
    /\ hpc = "idle"
    /\ pending_code = NoString
    /\ pending_path = NoString
    /\ served = 0
    /\ last_status = 0
    /\ answered = <<>>
    /\ wait_obs = NotReturned
    /\ exchange_req = [code |-> NoString, client_id |-> NoString]
    /\ token_dict = EmptyHash
    /\ lib_result = NotLoaded

Next ==
    \/ AuthorizeStart
    \/ DoGetPlain
    \/ DoGetCallbackStore
    \/ DoGetCallbackSignal
    \/ DoGetCallbackAnswer
    \/ OpenAuthorizationUrl
    \/ WaitReturns
    \/ CheckCode
    \/ ExitNoCode
    \/ ExchangeRequest
    \/ ExchangeResponse
    \/ ExitFetchFailed
    \/ AuthorizeReturns
    \/ ImportTokenInfo
    \/ LoadTokenFromRedis
    \/ SaveTokenToRedis
    \/ StartPoll
    \/ RestartPoll
    \/ LoopTop
    \/ GetValidAccessToken
    \/ RefreshRequest
    \/ RefreshResponse
    \/ DoFetchRequest
    \/ DoFetchResponse
    \/ StoreAndDedupe
    \/ PublishAttempt
    \/ PublishGiveUp
    \/ Sleep

\* authorize.py and import-auth.py alone
AuthNext ==
    \/ AuthorizeStart
    \/ DoGetPlain
    \/ DoGetCallbackStore
    \/ DoGetCallbackSignal
    \/ DoGetCallbackAnswer
    \/ OpenAuthorizationUrl
    \/ WaitReturns
    \/ CheckCode
    \/ ExitNoCode
    \/ ExchangeRequest
    \/ ExchangeResponse
    \/ ExitFetchFailed
    \/ AuthorizeReturns
    \/ ImportTokenInfo

\* main.py alone, run and started again at will, whatever the metric endpoint
\* and the broker answer, while the token endpoint and the metric endpoint
\* answer within the second
PollNext ==
    \/ StartPoll
    \/ RestartPoll
    \/ LoopTop
    \/ GetValidAccessToken
    \/ RefreshRequest
    \/ RefreshResponsePrompt
    \/ DoFetchRequest
    \/ DoFetchResponsePrompt
    \/ StoreAndDedupe
    \/ PublishAttempt
    \/ PublishGiveUp
    \/ Sleep

\* main.py is started with nothing at REDIS_TOKEN_KEY, or with a record that
\* authorize.py printed and import-auth.py stored
PollInit ==
    /\ now \in ExchangeTimes
    /\ redis_token \in {EmptyHash} \cup ImportedRecords
    /\ token_pickle = NoKey
    /\ fitbit_end_datetime = NoKey
    /\ fitbit_latest_timestamp = NoKey
    /\ pc = "stopped"
    /\ latest_timestamp = None
    /\ tokens0 = EmptyHash
    /\ access_token = NoString
    /\ timestamp = None
    /\ hr_value = None
    /\ i = 0
    /\ sleeps = 0
    /\ data = [kind |-> "none"]
    /\ fetch_status = 0
    /\ reqs = <<>>
    /\ tok_read = NoTokRead
    /\ pub_calls = <<>>
    /\ results = <<>>
    /\ refresh_resp = NoResponse
    /\ error_logged = FALSE
    /\ pub_count = [t \in {} |-> 0]
    /\ apc = "idle"
    /\ client_id = NoString
    /\ authorization_code = NoString
    /\ auth_event = FALSE
    /\ hpc = "idle"
    /\ pending_code = NoString
    /\ pending_path = NoString
    /\ served = 0
    /\ last_status = 0
    /\ answered = <<>>
    /\ wait_obs = NotReturned
    /\ exchange_req = [code |-> NoString, client_id |-> NoString]
    /\ token_dict = EmptyHash
    /\ lib_result = NotLoaded

\* The poll loop, from every credential state the authorization can leave
Spec == PollInit /\ [][PollNext]_vars

\* One run of main.py with import-auth.py run beside it at any moment and
\* endpoints that may take their time, while the metric endpoint and the
\* broker are in order
TokenNext ==
    \/ ImportTokenInfo
    \/ StartPoll
    \/ LoopTop
    \/ GetValidAccessToken
    \/ RefreshRequest
    \/ RefreshResponse
    \/ DoFetchRequest
    \/ DoFetchResponseHealthy
    \/ StoreAndDedupe
    \/ PublishDelivered
    \/ Sleep

\* The credential handling of the poll loop under concurrent imports
TokenSpec == PollInit /\ [][TokenNext]_vars

\* One run of main.py, whatever the token endpoint and the broker answer,
\* while the metric endpoint is in order (so that the cycles get as far as
\* publish())
FairNext ==
    \/ StartPoll
    \/ LoopTop
    \/ GetValidAccessToken
    \/ RefreshRequest
    \/ RefreshResponse
    \/ DoFetchRequest
    \/ DoFetchResponseHealthy
    \/ StoreAndDedupe
    \/ PublishAttempt
    \/ PublishGiveUp
    \/ Sleep

\* The poll loop with the one progress assumption the liveness claims need:
\* time.sleep of line 186 returns
FairSpec == PollInit /\ [][FairNext]_vars /\ WF_vars(Sleep)

\* The authorization flow and the import
AuthSpec == Init /\ [][AuthNext]_vars

\* Authorization, import, poll loop and the lib/redis.py helpers together
FullSpec == Init /\ [][Next]_vars

----------------------------------------------------------------------------
\* Properties

HasRequest(op) == \E k \in 1..Len(reqs) : reqs[k].op = op
TokensRead == tok_read # NoTokRead
ExpiredAtRead == tok_read.tokens["expires_at"] <= tok_read.current_time

\* The last entry of this cycle's dataset, when it has a time and a value
HasSample ==
    /\ data.kind = "dataset"
    /\ data.dataset # <<>>
    /\ data.dataset[Len(data.dataset)].time.kind = "hms"
    /\ TruthyNumber(data.dataset[Len(data.dataset)].value)
SampleTime == parse(data.dataset[Len(data.dataset)].time, now)
SampleValue == data.dataset[Len(data.dataset)].value

\* The cycle's response carries no usable sample: no intraday dataset, an
\* empty dataset, or a latest entry without time or without value
DataAbsent ==
    \/ data.kind \in {"empty_object", "no_intraday", "no_dataset"}
    \/ /\ data.kind = "dataset"
       /\ \/ data.dataset = <<>>
          \/ ~TruthyTime(data.dataset[Len(data.dataset)].time)
          \/ ~TruthyNumber(data.dataset[Len(data.dataset)].value)

\* C1: within one cycle, a latest sample whose timestamp equals the persisted
\* marker is not published; a latest sample that is newer than the marker, or
\* any latest sample when there is no marker, is published exactly once, with
\* the sample's value.
C1_DedupeWithinCycle ==
    (pc \in {"publish", "sleep"} /\ HasSample) =>
        /\ (latest_timestamp # None /\ latest_timestamp = SampleTime) =>
               pub_calls = <<>>
        /\ (latest_timestamp = None \/ latest_timestamp[1] < SampleTime[1]) =>
               pub_calls = <<[timestamp |-> SampleTime, msg |-> SampleValue]>>

C1_Witness ==
    /\ pc = "sleep"
    /\ HasSample
    /\ latest_timestamp = SampleTime
    /\ pub_calls = <<>>

\* C2: over any sequence of cycles and restarts, publish is invoked at most
\* once for each distinct sample timestamp.
C2_AtMostOncePerTimestamp ==
    \A t \in DOMAIN pub_count : pub_count[t] <= 1

\* C3: in a cycle whose response has no usable sample, publish is not invoked
\* and the process does not terminate, with or without a marker.
C3_DataAbsentIsNoOp ==
    (DataAbsent /\ pc \in {"publish", "sleep", "crashed"}) =>
        (pub_calls = <<>> /\ pc # "crashed")

\* C4: one publish() makes between 1 and 10 attempts, none after a success,
\* and logs the error exactly when all 10 attempts failed.
C4_BoundedRetry ==
    /\ Len(results) <= 10
    /\ \A k \in 1..(Len(results) - 1) : results[k] # 0
    /\ pc = "publish" => (~error_logged /\ \A k \in 1..Len(results) : results[k] # 0)
    /\ (pc = "sleep" /\ pub_calls # <<>>) =>
          /\ Len(results) >= 1
          /\ error_logged <=>
                (Len(results) = 10 /\ \A k \in 1..Len(results) : results[k] # 0)
          /\ ~error_logged => results[Len(results)] = 0

C4_Witness ==
    /\ pc = "sleep"
    /\ results = <<4, 4, 4, 0>>
    /\ ~error_logged

\* C5: a publish() never ends the process, whatever the broker answers, and
\* after 10 failed attempts the loop comes back to its top for the next cycle.
C5_PublishFailureNotFatal ==
    /\ [][pc = "publish" => pc' \in {"publish", "sleep"}]_vars
    /\ (error_logged ~> pc = "loop_top")

C5_Witness ==
    /\ pc = "sleep"
    /\ error_logged
    /\ Len(results) = 10

\* C6: get_valid_access_token sends a refresh request exactly when the stored
\* expires_at <= now at the call; otherwise it makes no request, returns the
\* stored access token and leaves the record as it is.
C6_RefreshIffExpired ==
    /\ []((TokensRead /\ pc # "refresh") => (HasRequest("refresh") <=> ExpiredAtRead))
    /\ []((TokensRead /\ ~ExpiredAtRead) =>
            access_token = tok_read.tokens["access_token"])
    /\ [][(pc = "get_token" /\ pc' = "fetch") =>
            (/\ ~Expired(redis_token, now)
             /\ access_token' = redis_token["access_token"]
             /\ redis_token' = redis_token
             /\ reqs' = reqs)]_vars

C6_Witness ==
    /\ TokensRead
    /\ tok_read.tokens["expires_at"] = tok_read.current_time
    /\ HasRequest("refresh")

\* C7: the fetch request of a cycle comes after the token was obtained and
\* carries that token, which was, when it was obtained, the stored one and
\* unexpired; a cycle that begins with an expired token makes exactly one
\* refresh request, before the fetch, and the fetch carries the refreshed token.
C7_RefreshBeforeFetch ==
    /\ [](Cardinality({k \in 1..Len(reqs) : reqs[k].op = "refresh"}) <= 1)
    /\ [](\A k \in 1..Len(reqs) :
            reqs[k].op = "fetch" =>
               (k = Len(reqs) /\ TokensRead /\ reqs[k].bearer = access_token))
    /\ [][(pc # "fetch" /\ pc' = "fetch") =>
            (/\ access_token' = redis_token'["access_token"]
             /\ redis_token'["expires_at"] > now')]_vars
    /\ []((TokensRead /\ ExpiredAtRead /\ pc # "refresh") =>
            Cardinality({k \in 1..Len(reqs) : reqs[k].op = "refresh"}) = 1)
    /\ []((TokensRead /\ ExpiredAtRead /\ HasRequest("fetch")) =>
            (/\ Len(reqs) = 2
             /\ reqs[1].op = "refresh"
             /\ reqs[2].bearer = refresh_resp.body["access_token"]))

C7_Witness ==
    /\ tok_read.current_time = 5000
    /\ tok_read.tokens["expires_at"] = 4600
    /\ Len(reqs) = 2
    /\ reqs[1].op = "refresh"
    /\ reqs[2].op = "fetch"
    /\ reqs[2].bearer = "AT2"

\* C8: the step that ends a successful refresh leaves in the stored record the
\* provider's access_token, refresh_token, scope, token_type and user_id and
\* expires_at = now + expires_in, now being the time of the answer; the
\* record's client_id is what it was before the write; the token returned to
\* the loop is the stored one.
C8_RefreshReplacesRecord ==
    [][(pc = "refresh_wait" /\ pc' = "fetch") =>
         LET body == refresh_resp'.body IN
         /\ refresh_resp'.status = 200
         /\ redis_token'["access_token"] = body["access_token"]
         /\ "refresh_token" \in DOMAIN body =>
               redis_token'["refresh_token"] = body["refresh_token"]
         /\ redis_token'["scope"] = body["scope"]
         /\ redis_token'["token_type"] = body["token_type"]
         /\ redis_token'["user_id"] = body["user_id"]
         /\ redis_token'["expires_at"] = now' + body["expires_in"]
         /\ ("client_id" \in DOMAIN redis_token') <=> ("client_id" \in DOMAIN redis_token)
         /\ Get(redis_token', "client_id") = Get(redis_token, "client_id")
         /\ access_token' = redis_token'["access_token"]]_vars

C8_Witness ==
    /\ refresh_resp.status = 200
    /\ Get(tok_read.tokens, "client_id") = "ABC123"
    /\ Get(redis_token, "client_id") = "ABC123"
    /\ tok_read.tokens["access_token"] = "AT1"
    /\ redis_token["access_token"] = "AT2"

\* C9: the record authorize prints carries the client_id it was called with,
\* so the stored record has it and every refresh request presents it.
C9_RecordHasClientId ==
    /\ apc = "done" => Get(token_dict, "client_id") = client_id
    /\ (apc = "done" /\ ~NoTokens(redis_token)) =>
          Get(redis_token, "client_id") = client_id
    /\ \A k \in 1..Len(reqs) :
          (apc = "done" /\ reqs[k].op = "refresh") => reqs[k].client_id = client_id

\* C10: a cycle without a token record, or with an expired token and a non-2xx
\* answer to the refresh, ends the process before any fetch or publish, and
\* the step that ends it leaves the stored record as it was.
C10_CredentialFailureFatal ==
    /\ []((NoTokens(redis_token) /\ pc \notin {"stopped", "loop_top", "get_token"}) =>
            (pc = "exited" /\ reqs = <<>> /\ pub_calls = <<>>))
    /\ []((refresh_resp.status # 0 /\ refresh_resp.status \notin 200..299) =>
            (pc = "exited" /\ ~HasRequest("fetch") /\ pub_calls = <<>>))
    /\ [][(pc \in {"get_token", "refresh_wait"} /\ pc' = "exited") =>
            redis_token' = redis_token]_vars

C10_Witness ==
    /\ refresh_resp.status = 401
    /\ pc = "exited"
    /\ HasRequest("refresh")

FetchRequests == {k \in 1..Len(reqs) : reqs[k].op = "fetch"}

\* C11: a fetch answered with a status outside 200..299 ends the process in
\* that cycle, after that one fetch request and without a publish; a cycle gets
\* to the dedupe step only after an answer with a status in 200..299.
C11_NonSuccessFetchFatal ==
    fetch_status # 0 =>
        /\ fetch_status \notin 200..299 =>
              /\ pc = "exited"
              /\ Cardinality(FetchRequests) = 1
              /\ pub_calls = <<>>
        /\ pc \in {"dedupe", "publish", "sleep", "crashed"} =>
              fetch_status \in 200..299

\* The answered requests that were a /callback with a code
CallbacksWithCode ==
    {k \in 1..Len(answered) : answered[k].path = "/callback" /\ answered[k].query # None}

\* The listener is in lines 86-101 of a request
InService == hpc \in {"stored", "signalled"}

\* C12: a /callback with a code is answered 200, a /callback without one 400,
\* a path other than / and /callback 404; only a /callback with a code gets
\* as far as storing; the signal is raised exactly when such a request is past
\* line 87 or answered, and a code is stored exactly when such a request is in
\* service or answered; answering any other request changes neither the
\* stored code nor the signal, so that a rejected request takes nothing from a
\* later request with a code.
C12_CallbackRouting ==
    /\ [](\A k \in 1..Len(answered) :
            LET a == answered[k] IN
            /\ (a.path = "/callback" /\ a.query # None) => a.status = 200
            /\ (a.path = "/callback" /\ a.query = None) => a.status = 400
            /\ a.path \notin {"/", "/callback"} => a.status = 404)
    /\ [](InService => pending_path = "/callback")
    /\ [](auth_event <=> (hpc = "signalled" \/ CallbacksWithCode # {}))
    /\ [](authorization_code # NoString <=> (InService \/ CallbacksWithCode # {}))
    /\ [][(answered' # answered /\ Len(answered') \notin CallbacksWithCode') =>
             (authorization_code' = authorization_code /\ auth_event' = auth_event)]_vars

C12_Witness ==
    /\ answered = <<[path |-> "/callback", query |-> None, status |-> 400],
                    [path |-> "/callback", query |-> Some("xyz"), status |-> 200]>>
    /\ auth_event
    /\ authorization_code = "xyz"

\* C13: the authorization URL is opened only after the listener has answered
\* a GET /: an orchestrator that is past the certificate step has a served
\* GET / behind it.
C13_CertificateGate ==
    apc \in {"waiting", "check_code", "no_code", "exchange", "exchanging",
             "fetch_failed", "printed", "done", "failed"} =>
        \E k \in 1..Len(answered) : answered[k].path = "/"

\* The token exchange request of lines 186-191 has been made
ExchangeMade == exchange_req.client_id # NoString

\* C14: the record is printed only when a code was there when the five-minute
\* wait returned and the exchange succeeded; a wait that times out with no code
\* is followed by no exchange request and ends in the failure exit; a failed
\* exchange prints no record; the exchange request is made at most once.
C14_FailuresTerminal ==
    /\ [](apc \in {"printed", "done"} =>
            (token_dict # EmptyHash /\ ExchangeMade /\ wait_obs.code # NoString))
    /\ []((wait_obs.returned /\ ~wait_obs.signalled /\ wait_obs.code = NoString) =>
            (~ExchangeMade /\ apc \in {"check_code", "no_code", "failed"}))
    /\ [](apc \in {"no_code", "fetch_failed", "failed"} => token_dict = EmptyHash)
    /\ [][exchange_req' # exchange_req => ~ExchangeMade]_vars

\* C15: the record printed at the end has expires_at = now + expires_in, now
\* being the time of the exchange and expires_in the value of the token
\* endpoint's answer: 4600 for an answer with 3600 at 1000, now + 28800 for
\* an answer with 28800.
C15_ExpiresAt ==
    apc \in {"printed", "done"} =>
        /\ token_dict["expires_in"] \in ExpiresIns
        /\ token_dict["expires_at"] = now + token_dict["expires_in"]
        /\ (now = 1000 /\ token_dict["expires_in"] = 3600) =>
              token_dict["expires_at"] = 4600
        /\ token_dict["expires_in"] = 28800 => token_dict["expires_at"] = now + 28800

C15_Witness ==
    /\ apc = "done"
    /\ now = 1000
    /\ token_dict["expires_in"] = 3600
    /\ token_dict["expires_at"] = 4600

\* C16: the fetch request of a cycle, the first or a later one, asks for the
\* window that ends at the time of that cycle and begins 23 hours before it,
\* and the persisted end of the last fetch never moves backwards.
C16_FetchWindow ==
    /\ [][(pc = "fetch" /\ pc' = "fetch_wait") =>
            (/\ reqs'[Len(reqs')].end = UrlTime(now)
             /\ reqs'[Len(reqs')].start = UrlTime(now - WindowSeconds))]_vars
    /\ [][fitbit_end_datetime # NoKey =>
            (fitbit_end_datetime' # NoKey /\
             fitbit_end_datetime'[1] >= fitbit_end_datetime[1])]_vars

\* C17: the persisted marker is at all times the timestamp of the sample most
\* recently passed to publish: it changes only in a step that calls publish,
\* to the timestamp published, and every call of publish leaves it at the
\* timestamp published; in a cycle that gets as far as publish the marker and
\* the end of the last fetch are persisted, whatever the deliveries return.
C17_MarkerMeaning ==
    /\ [][fitbit_latest_timestamp' # fitbit_latest_timestamp =>
            (/\ Len(pub_calls') = Len(pub_calls) + 1
             /\ fitbit_latest_timestamp' = Pickled(pub_calls'[Len(pub_calls')].timestamp))]_vars
    /\ [][Len(pub_calls') = Len(pub_calls) + 1 =>
            fitbit_latest_timestamp' = Pickled(pub_calls'[Len(pub_calls')].timestamp)]_vars
    /\ []((pub_calls # <<>> /\ pc \in {"publish", "sleep"}) =>
            (/\ fitbit_latest_timestamp = Pickled(timestamp)
             /\ fitbit_end_datetime # NoKey
             /\ fitbit_end_datetime[1] >= tok_read.current_time
             /\ fitbit_end_datetime[1] <= now))

\* The codes the listener has taken from requests
ReceivedCodes ==
    {answered[k].query[1] : k \in CallbacksWithCode}
        \cup (IF InService THEN {pending_code} ELSE {})

LastCallbackWithCode ==
    CHOOSE k \in CallbacksWithCode : \A j \in CallbacksWithCode : j <= k

\* C18: every /callback with a code is accepted (200), a second one as the
\* first; the stored code is the code of the latest such request; the exchange
\* presents the code stored at the time the orchestrator reads it, and that is
\* one of the codes received.
C18_LastWriteWins ==
    /\ [](\A k \in CallbacksWithCode : answered[k].status = 200)
    /\ [](InService => authorization_code = pending_code)
    /\ []((~InService /\ CallbacksWithCode # {}) =>
            authorization_code = answered[LastCallbackWithCode].query[1])
    /\ [][exchange_req' # exchange_req => exchange_req'.code = authorization_code]_vars
    /\ [](ExchangeMade => exchange_req.code \in ReceivedCodes)

C18_Witness ==
    /\ answered = <<[path |-> "/callback", query |-> Some("xyz"), status |-> 200],
                    [path |-> "/callback", query |-> Some("abc"), status |-> 200]>>
    /\ wait_obs.code = "abc"
    /\ exchange_req.code = "abc"

\* C19: the sleep between the end of a cycle and the start of the next lasts
\* ceil(150/60) = 3 minutes, 180 seconds, and never less than 24 seconds.
C19_Cadence ==
    [][(pc = "sleep" /\ pc' = "loop_top") =>
          (now' - now = 180 /\ now' - now >= 24)]_vars

\* C20: whenever the event is set the global holds a code; the event, once
\* set, stays set, and the code, once stored, is never taken away; so an
\* orchestrator whose wait was ended by the event goes on to the exchange and
\* never leaves by the exit of line 182.
C20_SignalImpliesCode ==
    /\ [](auth_event => authorization_code # NoString)
    /\ [][auth_event => auth_event']_vars
    /\ [][authorization_code # NoString => authorization_code' # NoString]_vars
    /\ []((wait_obs.signalled /\ apc # "check_code") =>
            (apc \in {"exchange", "exchanging", "printed", "done"} \/
             (apc \in {"fetch_failed", "failed"} /\ ExchangeMade)))

C20_Witness ==
    /\ wait_obs.signalled
    /\ apc = "exchange"
    /\ auth_event
    /\ authorization_code = "xyz"

====
